---------------------------- MODULE Spec2Model ----------------------------
(***************************************************************************)
(* fastai_slack: a fastai training callback that posts progress messages   *)
(* to a Slack incoming webhook (src/fastai_slack/__init__.py).             *)
(*                                                                         *)
(* Two specifications are given.                                           *)
(*   Spec     the module under an arbitrary caller: every public function  *)
(*            and every callback may be called at any time with any        *)
(*            payload, well formed or not.                                 *)
(*   SpecRun  the callback driven by fastai's fit loop: on_train_begin,    *)
(*            on_epoch_end for epochs 0, 1, ... in order, on_train_end     *)
(*            (after all epochs, after an early stop, or with the          *)
(*            exception that ended training), with payloads that honour    *)
(*            the loop's contract.                                         *)
(***************************************************************************)
EXTENDS Integers, Sequences, FiniteSets

VARIABLES
    cb,       \* the SlackCallback instance: name, freq, url, tag, metrics
    environ,  \* os.environ['FASTAI_SLACK_WEBHOOK'], or Unset
    sent,     \* the calls of sendNotification made by the last call, in order
    raised,   \* the exception that escaped the last call ("none": it returned)
    last,     \* the last call: which function, with which arguments, what it returned
    begun,    \* whether on_train_begin has been called on the instance
    loop,     \* the fit loop's state_dict: phase, n_epochs, epoch, smooth_loss, last_metrics, metrics_names
    log       \* every sendNotification call since the last on_train_begin started

vars == <<cb, environ, sent, raised, last, begun, loop, log>>

----------------------------------------------------------------------------
(* Bounds of the model. *)

\* The longest training the fit loop runs (SpecRun): n_epochs in 1..MaxEpochs.
MaxEpochs == 4
\* The largest notification frequency the callback is constructed with.
MaxFreq == 3
\* The largest n_epochs an arbitrary caller passes (Spec); it passes epoch
\* indices 0..MaxN, so that epoch + 1 may exceed n_epochs.
MaxN == 2

----------------------------------------------------------------------------
(* Values. *)

\* Python's None, and a key that a payload lacks / an attribute never assigned.
None == "None"
Unset == "<unset>"

Names == {"mnist"}
\* What the user may pass as webhook_url: nothing, an empty string, a URL.
WebhookArgs == {None, "", "https://hooks.example/A"}
EnvValues == {Unset, "https://hooks.example/E"}
\* What the user types at the getpass() prompt.
TypedValues == {"https://hooks.example/T"}

\* The tags random.choice may produce (6 characters of [a-z0-9]).
Tags == {"k3x9ab", "p0q1zz"}

\* Metric names the learner may track besides the two losses.
MetricNameLists == {<<>>, <<"accuracy">>}
\* Metric values: a Python number (an integer here), or None for a metric
\* that was not computed.
Num(n) == [isnum |-> TRUE, v |-> n]
NoneVal == [isnum |-> FALSE, v |-> 0]
\* The exception fit() hands to on_train_end: False/None, or the exception raised.
ExValues == {None, "CUDA out of memory"}

\* What one requests.post may do: answer with a status, or fail in transport.
Response(s) == [kind |-> "response", status |-> s]
TransportError == [kind |-> "error", status |-> 0]
Outcomes == {Response(200), Response(201), TransportError}

----------------------------------------------------------------------------
(* Text. A message is kept as its parts rather than as characters: the     *)
(* banner's name and tag, and the blocks that '\n'.join puts after it.     *)

Blk(kind, i, n, names, vals, text) ==
    [kind |-> kind, i |-> i, n |-> n, names |-> names, vals |-> vals, text |-> text]

\* f'*Started training for {n_epochs} epochs*'
StartedBlk(n) == Blk("Started", 0, n, <<>>, <<>>, "")
\* f'Epoch {epoch}/{n_epochs}'
EpochBlk(i, n) == Blk("Epoch", i, n, <<>>, <<>>, "")
\* '```\n' + DataFrame([vals], columns=names).to_string(index=False) + '\n```'
TableBlk(names, vals) == Blk("Table", 0, 0, names, vals, "")
\* '*Training complete*'
CompleteBlk == Blk("Complete", 0, 0, <<>>, <<>>, "")
\* '*Training failed with exception:'
FailedBlk == Blk("Failed", 0, 0, <<>>, <<>>, "")
\* f'`{ex}`'
ExBlk(ex) == Blk("Exception", 0, 0, <<>>, <<>>, ex)
\* '```\n' + '\n'.join(traceback.format_tb(sys.last_traceback)) + '\n```'
TracebackBlk == Blk("Traceback", 0, 0, <<>>, <<>>, "")
\* 'Failed to detect stacktrace'
NoTracebackBlk == Blk("NoTraceback", 0, 0, <<>>, <<>>, "")

\* No text: the call that would have built it raised.
NoBlk == Blk("", 0, 0, <<>>, <<>>, "")

Min(a, b) == IF a < b THEN a ELSE b

\* Python truthiness of the values that reach an `if x` / `x or y`.
Truthy(v) == v \notin {None, "", Unset}

----------------------------------------------------------------------------
(* read_webhook_url(check_env, help_text): the URL it returns and whether  *)
(* it prompted. env is the environment variable, typed the user's input.   *)

read_webhook_url(check_env, help_text, env, typed) ==
    IF env # Unset
    THEN [url |-> env, prompted |-> FALSE, help |-> FALSE]
    ELSE [url |-> typed, prompted |-> TRUE, help |-> help_text]

\* A variant that accepts every status requests calls ok (below 400).
sendNotification_res_ok(url, msg, outcome) ==
    IF outcome.kind = "response"
    THEN IF outcome.status >= 400
         THEN [ret |-> FALSE, posts |-> 1, raised |-> "none"]
         ELSE [ret |-> TRUE, posts |-> 1, raised |-> "none"]
    ELSE [ret |-> FALSE, posts |-> 1, raised |-> "none"]

(* sendNotification(url, msg): one requests.post, whose outcome decides    *)
(* the result. posts is the number of POST requests made.                  *)

sendNotification(url, msg, outcome) ==
    IF outcome.kind = "response"
    THEN IF outcome.status # 200
         THEN [ret |-> FALSE, posts |-> 1, raised |-> "none"]
         ELSE [ret |-> TRUE, posts |-> 1, raised |-> "none"]
    ELSE [ret |-> FALSE, posts |-> 1, raised |-> "none"]

(* format_metric(val): '{:.4f}'.format(val). An integer n gives n.0000;    *)
(* None has no such format and raises TypeError.                           *)

format_metric(val) ==
    IF ~val.isnum
    THEN [raised |-> "TypeError", text |-> <<>>]
    ELSE [raised |-> "none", text |-> <<val.v, 0, 0, 0, 0>>]

(* format_metrics(names, metric_vals): the values are formatted when the   *)
(* DataFrame consumes the map, then the column count is checked.           *)

format_metrics(names, metric_vals) ==
    LET vals == [k \in 1..Len(metric_vals) |-> format_metric(metric_vals[k])]
    IN  IF \E k \in 1..Len(vals) : vals[k].raised # "none"
        THEN [raised |-> "TypeError", blk |-> NoBlk]
        ELSE IF Len(names) # Len(vals)
        THEN [raised |-> "ValueError", blk |-> NoBlk]
        ELSE [raised |-> "none",
              blk |-> TableBlk(names, [k \in 1..Len(vals) |-> vals[k].text])]

----------------------------------------------------------------------------
(* class SlackCallback. `self` is the instance; a method gives the         *)
(* instance after the call, the sendNotification calls it made and the     *)
(* exception that escaped it. self.metrics = <<>> stands for the attribute *)
(* not being set: __init__ does not assign it.                             *)

\* The keyword arguments fastai passes to a callback. has_epoch: whether
\* the payload has the key 'epoch'.
Payload(epoch, has_epoch, n_epochs, smooth_loss, last_metrics, metrics_names, exception) ==
    [epoch |-> epoch, has_epoch |-> has_epoch, n_epochs |-> n_epochs,
     smooth_loss |-> smooth_loss, last_metrics |-> last_metrics,
     metrics_names |-> metrics_names, exception |-> exception]

Result(self, msgs, exc) == [cb |-> self, sent |-> msgs, raised |-> exc]

\* SlackCallback(name, webhook_url, frequency)
__init__(name, webhook_url, frequency, env, typed) ==
    LET r == read_webhook_url(TRUE, TRUE, env, typed)
    IN  [name |-> name, freq |-> frequency, tag |-> "", metrics |-> <<>>,
         url |-> IF Truthy(webhook_url) THEN webhook_url ELSE r.url]

\* self._send(msg): msg is the list of blocks (a string is one block).
_send(self, msg, outcome) ==
    LET text == [name |-> self.name, tag |-> self.tag, blocks |-> msg]
    IN  <<[url |-> self.url, text |-> text,
           ok |-> sendNotification(self.url, text, outcome).ret]>>

\* A variant that shows epoch + 1 without clamping it to n_epochs.
_send_metrics_no_clamp(self, ka, msg, outcome) ==
    IF ~ka.has_epoch THEN Result(self, <<>>, "KeyError")
    ELSE LET epoch == ka.epoch + 1
             head == msg \o <<EpochBlk(epoch, ka.n_epochs)>>
         IN  IF self.metrics = <<>> THEN Result(self, <<>>, "AttributeError")
             ELSE LET fm == format_metrics(self.metrics,
                                           <<ka.smooth_loss>> \o ka.last_metrics)
                  IN  IF fm.raised # "none" THEN Result(self, <<>>, fm.raised)
                      ELSE Result(self, _send(self, head \o <<fm.blk>>, outcome), "none")

\* self._send_metrics(ka, msg)
_send_metrics(self, ka, msg, outcome) ==
    IF ~ka.has_epoch THEN Result(self, <<>>, "KeyError")
    ELSE LET epoch == Min(ka.epoch + 1, ka.n_epochs)
             head == msg \o <<EpochBlk(epoch, ka.n_epochs)>>
         IN  IF self.metrics = <<>> THEN Result(self, <<>>, "AttributeError")
             ELSE LET fm == format_metrics(self.metrics,
                                           <<ka.smooth_loss>> \o ka.last_metrics)
                  IN  IF fm.raised # "none" THEN Result(self, <<>>, fm.raised)
                      ELSE Result(self, _send(self, head \o <<fm.blk>>, outcome), "none")

\* A variant that sends the message before it generates the tag.
on_train_begin_send_first(self, ka, newtag, outcome) ==
    LET s1 == [self EXCEPT !.metrics = <<"train_loss", "valid_loss">> \o ka.metrics_names]
        s2 == [s1 EXCEPT !.tag = newtag]
    IN  Result(s2, _send(s1, <<StartedBlk(ka.n_epochs)>>, outcome), "none")

\* self.on_train_begin(**ka); newtag is what generate_tag() returns.
on_train_begin(self, ka, newtag, outcome) ==
    LET s1 == [self EXCEPT !.tag = newtag]
        s2 == [s1 EXCEPT !.metrics = <<"train_loss", "valid_loss">> \o ka.metrics_names]
    IN  Result(s2, _send(s2, <<StartedBlk(ka.n_epochs)>>, outcome), "none")

\* A variant that tests the 0-based epoch index against the frequency.
on_epoch_end_zero_based(self, ka, outcome) ==
    IF self.freq > 0
    THEN IF ~ka.has_epoch THEN Result(self, <<>>, "KeyError")
         ELSE IF ka.epoch % self.freq = 0
              THEN _send_metrics(self, ka, <<>>, outcome)
              ELSE Result(self, <<>>, "none")
    ELSE Result(self, <<>>, "none")

\* self.on_epoch_end(**ka)
on_epoch_end(self, ka, outcome) ==
    IF self.freq > 0
    THEN IF ~ka.has_epoch THEN Result(self, <<>>, "KeyError")
         ELSE IF (ka.epoch + 1) % self.freq = 0
              THEN _send_metrics(self, ka, <<>>, outcome)
              ELSE Result(self, <<>>, "none")
    ELSE Result(self, <<>>, "none")

\* A variant without the else: after the failure report it goes on to the
\* success report.
on_train_end_no_else(self, ka, has_tb, outcome) ==
    LET tb_str == IF has_tb THEN TracebackBlk ELSE NoTracebackBlk
        failed == IF Truthy(ka.exception)
                  THEN _send(self, <<FailedBlk, ExBlk(ka.exception), tb_str>>, outcome)
                  ELSE <<>>
    IN  Result(self, failed \o _send(self, <<CompleteBlk>>, outcome), "none")

\* A variant that always reports the final metrics with 'Training complete'.
on_train_end_always_metrics(self, ka, has_tb, outcome) ==
    IF Truthy(ka.exception)
    THEN LET tb_str == IF has_tb THEN TracebackBlk ELSE NoTracebackBlk
         IN  Result(self, _send(self, <<FailedBlk, ExBlk(ka.exception), tb_str>>, outcome),
                    "none")
    ELSE _send_metrics(self, ka, <<CompleteBlk>>, outcome)

\* A variant that clears the tag once training has ended.
on_train_end_clears_tag(self, ka, has_tb, outcome) ==
    IF Truthy(ka.exception)
    THEN LET tb_str == IF has_tb THEN TracebackBlk ELSE NoTracebackBlk
         IN  Result([self EXCEPT !.tag = ""],
                    _send(self, <<FailedBlk, ExBlk(ka.exception), tb_str>>, outcome), "none")
    ELSE LET r == IF self.freq = 0
                  THEN _send_metrics(self, ka, <<CompleteBlk>>, outcome)
                  ELSE IF ka.n_epochs % self.freq > 0
                       THEN _send_metrics(self, ka, <<CompleteBlk>>, outcome)
                       ELSE Result(self, _send(self, <<CompleteBlk>>, outcome), "none")
         IN  [r EXCEPT !.cb.tag = ""]

\* self.on_train_end(**ka); has_tb: whether sys.last_traceback exists.
on_train_end(self, ka, has_tb, outcome) ==
    IF Truthy(ka.exception)
    THEN LET tb_str == IF has_tb THEN TracebackBlk ELSE NoTracebackBlk
         IN  Result(self, _send(self, <<FailedBlk, ExBlk(ka.exception), tb_str>>, outcome),
                    "none")
    ELSE LET msg == <<CompleteBlk>>
         IN  IF self.freq = 0
             THEN _send_metrics(self, ka, msg, outcome)
             ELSE IF ka.n_epochs % self.freq > 0
                  THEN _send_metrics(self, ka, msg, outcome)
                  ELSE Result(self, _send(self, msg, outcome), "none")

----------------------------------------------------------------------------
(* The state after construction: SlackCallback(name, webhook_url,          *)
(* frequency) in a process whose environment may hold the webhook.         *)

\* What is recorded of a call.
NoCall ==
    [op |-> "", epoch |-> 0, has_epoch |-> FALSE, n_epochs |-> 0, exception |-> None,
     arg |-> "", check_env |-> FALSE, env |-> Unset, typed |-> "", url |-> "",
     prompted |-> FALSE, ret |-> FALSE, posts |-> 0, outcome |-> TransportError]

CallOf(op, ka) ==
    [NoCall EXCEPT !.op = op, !.epoch = ka.epoch, !.has_epoch = ka.has_epoch,
                   !.n_epochs = ka.n_epochs, !.exception = ka.exception]

\* fastai's state_dict before fit() is called.
IdleLoop ==
    [phase |-> "Idle", n_epochs |-> 0, epoch |-> 0, smooth_loss |-> Num(0),
     last_metrics |-> <<>>, metrics_names |-> <<>>]

Init ==
    \E name \in Names, webhook_url \in WebhookArgs, frequency \in 0..MaxFreq,
       env \in EnvValues, typed \in TypedValues :
        /\ cb = __init__(name, webhook_url, frequency, env, typed)
        /\ environ = env
        /\ sent = <<>>
        /\ raised = "none"
        /\ last = [NoCall EXCEPT !.op = "__init__", !.arg = webhook_url, !.env = env,
                                 !.typed = typed, !.check_env = TRUE,
                                 !.url = __init__(name, webhook_url, frequency, env, typed).url,
                                 !.prompted = ~Truthy(webhook_url) /\ env = Unset]
        /\ begun = FALSE
        /\ loop = IdleLoop
        /\ log = <<>>

----------------------------------------------------------------------------
(* Spec: an arbitrary caller.                                              *)

EpochIndices == 0..MaxN
EpochCounts == 1..MaxN
LastMetricsLists == {<<Num(1)>>, <<Num(1), Num(2)>>, <<NoneVal>>}

\* The key 'epoch' with a value, or no such key (the value is then unused).
EpochKeys == {<<e, TRUE>> : e \in EpochIndices} \cup {<<0, FALSE>>}

BeginPayloads ==
    {Payload(0, TRUE, n, Num(0), <<>>, names, None) :
        n \in EpochCounts, names \in MetricNameLists}

EpochEndPayloads ==
    {Payload(k[1], k[2], n, Num(1), lm, <<>>, None) :
        k \in EpochKeys, n \in EpochCounts, lm \in LastMetricsLists}

TrainEndPayloads ==
    {Payload(k[1], k[2], n, Num(1), lm, <<>>, ex) :
        k \in EpochKeys, n \in EpochCounts, lm \in LastMetricsLists, ex \in ExValues}

\* The effect of a callback on the instance and on what is observed of it.
Effect(op, ka, r) ==
    /\ cb' = r.cb
    /\ sent' = r.sent
    /\ raised' = r.raised
    /\ last' = CallOf(op, ka)

CallTrainBegin ==
    \E ka \in BeginPayloads, newtag \in Tags, outcome \in Outcomes :
        /\ Effect("on_train_begin", ka, on_train_begin(cb, ka, newtag, outcome))
        /\ begun' = TRUE
        /\ UNCHANGED <<environ, loop, log>>

CallEpochEnd ==
    \E ka \in EpochEndPayloads, outcome \in Outcomes :
        /\ Effect("on_epoch_end", ka, on_epoch_end(cb, ka, outcome))
        /\ UNCHANGED <<environ, begun, loop, log>>

CallTrainEnd ==
    \E ka \in TrainEndPayloads, has_tb \in BOOLEAN, outcome \in Outcomes :
        /\ Effect("on_train_end", ka, on_train_end(cb, ka, has_tb, outcome))
        /\ UNCHANGED <<environ, begun, loop, log>>

CallSendNotification ==
    \E url \in WebhookArgs \ {None}, outcome \in Outcomes :
        LET r == sendNotification(url, "hello", outcome)
        IN  /\ last' = [NoCall EXCEPT !.op = "sendNotification", !.url = url,
                                      !.ret = r.ret, !.posts = r.posts,
                                      !.outcome = outcome]
            /\ raised' = r.raised
            /\ sent' = <<>>
            /\ UNCHANGED <<cb, environ, begun, loop, log>>

CallReadWebhookUrl ==
    \E check_env \in BOOLEAN, help_text \in BOOLEAN, typed \in TypedValues :
        LET r == read_webhook_url(check_env, help_text, environ, typed)
        IN  /\ last' = [NoCall EXCEPT !.op = "read_webhook_url", !.check_env = check_env,
                                      !.env = environ, !.typed = typed, !.url = r.url,
                                      !.prompted = r.prompted]
            /\ raised' = "none"
            /\ sent' = <<>>
            /\ UNCHANGED <<cb, environ, begun, loop, log>>

Next ==
    \/ CallTrainBegin
    \/ CallEpochEnd
    \/ CallTrainEnd
    \/ CallSendNotification
    \/ CallReadWebhookUrl

Spec == Init /\ [][Next]_vars

----------------------------------------------------------------------------
(* SpecRun: fastai's fit loop drives the callback. The loop keeps its      *)
(* state_dict and passes it to every callback; loop.epoch is the number of *)
(* epochs completed, which is the index of the epoch under way. The        *)
(* metrics of the epoch with number j are all j, so that a table shows     *)
(* which epoch it reports.                                                 *)

MetricsOf(j, names) == [k \in 1..(1 + Len(names)) |-> Num(j)]

LoopPayload(l, ex) ==
    Payload(l.epoch, TRUE, l.n_epochs, l.smooth_loss, l.last_metrics, l.metrics_names, ex)

\* What the log keeps of a sendNotification call: where to and what.
Logged(msgs) == [k \in 1..Len(msgs) |-> [url |-> msgs[k].url, text |-> msgs[k].text]]

\* fit(n): on_train_begin
FitBegin ==
    /\ loop.phase \in {"Idle", "Terminated"}
    /\ \E n \in 1..MaxEpochs, names \in MetricNameLists, newtag \in Tags,
          outcome \in Outcomes :
        LET l == [phase |-> "Running", n_epochs |-> n, epoch |-> 0,
                  smooth_loss |-> Num(0), last_metrics |-> MetricsOf(0, names),
                  metrics_names |-> names]
            r == on_train_begin(cb, LoopPayload(l, None), newtag, outcome)
        IN  /\ Effect("on_train_begin", LoopPayload(l, None), r)
            /\ loop' = l
            /\ begun' = TRUE
            /\ log' = Logged(r.sent)
            /\ UNCHANGED environ

\* The epoch under way ends: on_epoch_end, then the epoch counter advances.
FitEpochEnd ==
    /\ loop.phase = "Running"
    /\ loop.epoch < loop.n_epochs
    /\ \E outcome \in Outcomes :
        LET l == [loop EXCEPT !.smooth_loss = Num(loop.epoch + 1),
                              !.last_metrics = MetricsOf(loop.epoch + 1, loop.metrics_names)]
            r == on_epoch_end(cb, LoopPayload(l, None), outcome)
        IN  /\ Effect("on_epoch_end", LoopPayload(l, None), r)
            /\ loop' = [l EXCEPT !.epoch = loop.epoch + 1]
            /\ log' = log \o Logged(r.sent)
            /\ UNCHANGED <<environ, begun>>

\* Training ends: all epochs done, a callback stopped it early, or an
\* exception ended it (fit's finally clause): on_train_end(exception).
FitEnd ==
    /\ loop.phase = "Running"
    /\ \E ex \in ExValues, has_tb \in BOOLEAN, outcome \in Outcomes :
        LET r == on_train_end(cb, LoopPayload(loop, ex), has_tb, outcome)
        IN  /\ Effect("on_train_end", LoopPayload(loop, ex), r)
            /\ loop' = [loop EXCEPT !.phase = "Terminated"]
            /\ log' = log \o Logged(r.sent)
            /\ UNCHANGED <<environ, begun>>

NextRun ==
    \/ FitBegin
    \/ FitEpochEnd
    \/ FitEnd

SpecRun == Init /\ [][NextRun]_vars

----------------------------------------------------------------------------
(* Properties of the module under an arbitrary caller (Spec).              *)

Callbacks == {"on_train_begin", "on_epoch_end", "on_train_end"}

\* The blocks of every message the last call sent.
SentBlocks == {sent[k].text.blocks : k \in 1..Len(sent)}
KindsOf(blocks) == {blocks[k].kind : k \in 1..Len(blocks)}

\* C2. Every callback, with every payload and in every order, returns
\* normally: no exception escapes into the training loop.
C2_CallbacksNeverRaise == raised = "none"

\* C3. sendNotification makes exactly one POST and returns True if and only
\* if the response status is 200; for every other status and for a transport
\* failure it returns False; it never raises.
C3_SendTrueIffStatus200 ==
    last.op = "sendNotification" =>
        /\ last.posts = 1
        /\ last.ret <=> (last.outcome = Response(200))
        /\ raised = "none"

\* A response with another 2xx status was answered with False.
C3_Witness ==
    /\ last.op = "sendNotification"
    /\ last.outcome = Response(201)
    /\ ~last.ret

\* C4. on_train_end with an exception sends, whatever the frequency and
\* n_epochs, exactly one message: the failure line, the exception's text and
\* a traceback block or its placeholder; no 'Training complete', no metrics
\* table; and it does not raise.
C4_FailureReportOnly ==
    (last.op = "on_train_end" /\ last.exception # None) =>
        /\ raised = "none"
        /\ Len(sent) = 1
        /\ \E tb \in {TracebackBlk, NoTracebackBlk} :
              sent[1].text.blocks = <<FailedBlk, ExBlk(last.exception), tb>>
        /\ \A b \in SentBlocks : KindsOf(b) \cap {"Complete", "Table", "Epoch"} = {}

\* A failure reported by a callback of frequency 0, with no traceback at hand.
C4_Witness ==
    /\ last.op = "on_train_end"
    /\ last.exception = "CUDA out of memory"
    /\ cb.freq = 0
    /\ Len(sent) = 1
    /\ sent[1].text.blocks[3] = NoTracebackBlk

\* C6. The webhook URL: an explicit URL is used unchanged; otherwise the
\* environment variable's value if check_env is true and the variable is
\* set; otherwise, also when check_env is false and the variable is set, the
\* URL typed at the prompt.
C6_ResolvePrecedence ==
    /\ (last.op = "__init__" /\ Truthy(last.arg)) =>
          (last.url = last.arg /\ ~last.prompted)
    /\ (last.op = "read_webhook_url" \/ (last.op = "__init__" /\ ~Truthy(last.arg))) =>
          IF last.check_env /\ last.env # Unset
          THEN last.url = last.env /\ ~last.prompted
          ELSE last.url = last.typed /\ last.prompted

\* C8. on_epoch_end and on_train_end leave tag and metrics as they are, and
\* no callback changes name, url or freq, whatever was sent and whether the
\* send succeeded.
C8_OnlyBeginMutates ==
    [][/\ last'.op \in {"on_epoch_end", "on_train_end"} =>
             (cb'.tag = cb.tag /\ cb'.metrics = cb.metrics)
       /\ last'.op \in Callbacks =>
             (cb'.name = cb.name /\ cb'.url = cb.url /\ cb'.freq = cb.freq)]_vars

\* on_train_end sent a message of a tagged run and the send failed.
C8_Witness ==
    /\ last.op = "on_train_end"
    /\ cb.tag \in Tags
    /\ Len(sent) = 1
    /\ ~sent[1].ok

\* C10. Every 'Epoch i/N' line shows i = min(epoch + 1, n_epochs), so that
\* 1 <= i <= N.
C10_EpochClamped ==
    \A blocks \in SentBlocks : \A k \in 1..Len(blocks) :
        blocks[k].kind = "Epoch" =>
            /\ blocks[k].i = Min(last.epoch + 1, last.n_epochs)
            /\ blocks[k].n = last.n_epochs
            /\ 1 <= blocks[k].i
            /\ blocks[k].i <= blocks[k].n

\* on_train_end, called with the epoch counter already at n_epochs, showed
\* 'Epoch N/N'.
C10_Witness ==
    /\ last.op = "on_train_end"
    /\ last.has_epoch
    /\ last.epoch = last.n_epochs
    /\ Len(sent) = 1
    /\ \E k \in 1..Len(sent[1].text.blocks) :
          sent[1].text.blocks[k] = EpochBlk(last.n_epochs, last.n_epochs)

----------------------------------------------------------------------------
(* Properties of a training run (SpecRun).                                 *)

\* The table that reports the metrics of the epoch with number j.
TableOfEpoch(j) == TableBlk(cb.metrics, [k \in 1..Len(cb.metrics) |-> <<j, 0, 0, 0, 0>>])

\* The per-epoch reports of the run so far, in the order sent.
IsEpochReport(m) == m.text.blocks[1].kind = "Epoch"
EpochReports == SelectSeq(log, IsEpochReport)

\* Training ended without an exception.
EndedWell ==
    /\ loop.phase = "Terminated"
    /\ last.op = "on_train_end"
    /\ last.exception = None

\* The blocks of the message on_train_end sent.
FinalBlocks == log[Len(log)].text.blocks

\* C1. In a complete successful run of N epochs the per-epoch reports are
\* those of the epoch numbers in 1..N that are multiples of the frequency
\* (none for frequency 0), in order; on_train_end sends 'Training complete'
\* together with the metrics of epoch N if the frequency is 0 or does not
\* divide N, and 'Training complete' alone otherwise; so the metrics of
\* epoch N are sent exactly once in the run.
C1_CompleteRunReports ==
    (EndedWell /\ loop.epoch = loop.n_epochs) =>
        LET f == cb.freq
            N == loop.n_epochs
        IN  /\ Len(EpochReports) = (IF f > 0 THEN N \div f ELSE 0)
            /\ \A k \in 1..Len(EpochReports) :
                  EpochReports[k].text.blocks = <<EpochBlk(k * f, N), TableOfEpoch(k * f)>>
            /\ Len(log) = Len(EpochReports) + 2
            /\ log[1].text.blocks = <<StartedBlk(N)>>
            /\ FinalBlocks = (IF f = 0
                              THEN <<CompleteBlk, EpochBlk(N, N), TableOfEpoch(N)>>
                              ELSE IF N % f > 0
                                   THEN <<CompleteBlk, EpochBlk(N, N), TableOfEpoch(N)>>
                                   ELSE <<CompleteBlk>>)
            /\ Cardinality({k \in 1..Len(log) :
                              \E b \in 1..Len(log[k].text.blocks) :
                                  log[k].text.blocks[b] = TableOfEpoch(N)}) = 1

\* Frequency 2, 4 epochs: 'Started', the reports of epochs 2 and 4, and a
\* bare 'Training complete'.
C1_Witness ==
    /\ EndedWell
    /\ cb.freq = 2
    /\ loop.epoch = 4
    /\ loop.n_epochs = 4
    /\ Len(log) = 4
    /\ FinalBlocks = <<CompleteBlk>>

\* C5. One on_epoch_end call sends exactly one message, the report of that
\* epoch, if the frequency is positive and divides epoch + 1, and nothing
\* otherwise; with frequency 0 it never sends.
C5_EpochEndSendsIffDue ==
    last.op = "on_epoch_end" =>
        LET due == IF cb.freq > 0 THEN (last.epoch + 1) % cb.freq = 0 ELSE FALSE
        IN  /\ raised = "none"
            /\ Len(sent) = (IF due THEN 1 ELSE 0)
            /\ due => sent[1].text.blocks[1] = EpochBlk(last.epoch + 1, last.n_epochs)

\* The epoch with index 3 ended under frequency 2 and was reported.
C5_Witness ==
    /\ last.op = "on_epoch_end"
    /\ cb.freq = 2
    /\ last.epoch = 3
    /\ Len(sent) = 1

\* C7. Every message carries the configured name and the current tag. The
\* tag is empty until the first on_train_begin; on_train_begin generates the
\* tag before it sends 'Started training', and every later message of the
\* run carries that tag.
C7_BannerCarriesRunTag ==
    /\ ~begun => (cb.tag = "" /\ log = <<>> /\ sent = <<>>)
    /\ begun => cb.tag \in Tags
    /\ \A k \in 1..Len(log) : log[k].text.name = cb.name /\ log[k].text.tag = cb.tag
    /\ \A k \in 1..Len(sent) : sent[k].text.name = cb.name /\ sent[k].text.tag = cb.tag
    /\ last.op = "on_train_begin" =>
          (Len(sent) = 1 /\ sent[1].text.blocks = <<StartedBlk(last.n_epochs)>>
                         /\ log = Logged(sent))

\* A run that sent 'Started', an epoch report and the final message.
C7_Witness ==
    /\ loop.phase = "Terminated"
    /\ Len(log) >= 3
    /\ log[1].text.tag = "p0q1zz"
    /\ IsEpochReport(log[2])

\* C9. In a run that ends without an exception after k completed epochs,
\* 1 <= k <= N, on_train_end sends the bare 'Training complete' only if
\* epoch k was already reported, and the combined message only if it was not.
C9_FinalMetricsOnceAnyStop ==
    (EndedWell /\ loop.epoch >= 1) =>
        LET reported == \E k \in 1..Len(EpochReports) :
                            EpochReports[k].text.blocks[1].i = loop.epoch
        IN  /\ FinalBlocks = <<CompleteBlk>> => reported
            /\ Len(FinalBlocks) = 3 => ~reported

=============================================================================
